---- MODULE Spec2Model ----
(***************************************************************************)
(* Model of lib/ntp-client.js: getNetworkTime and the four handlers it     *)
(* registers (reply timer, socket 'error' listener, send callback and the  *)
(* one-shot 'message' listener).  JavaScript handlers run to completion,   *)
(* so each handler is one action.  The environment (Node's timer queue,    *)
(* the dgram socket and the network) chooses which handler runs next.      *)
(* A handler that ends with an uncaught exception ends the Node process,   *)
(* and with it every query of that process.                                *)
(***************************************************************************)
EXTENDS Integers, Sequences, FiniteSets, TLC

\* ---------------------------------------------------------------- bounds
NumQueries == 2        \* queries of the concurrent workload
MaxErrorEvents == 2    \* socket 'error' events emitted in one run
MaxDatagrams == 2      \* inbound datagrams arriving in one run

\* ------------------------------------------------------ program constants
defaultNtpPort == 123
defaultNtpServer == "pool.ntp.org"
offsetTransmitTime == 40
PacketLen == 48

Q == 1..NumQueries

Null == "null"
TimeoutMsg == "Timeout waiting for NTP response."
\* Stands for undefined (a byte read past the end) and NaN in the decoder.
NaN == -1
\* A date is <<high half of the seconds, low half of the seconds, ms>>: the
\* seconds after 1900-01-01 UTC in two 16-bit halves and the milliseconds
\* within the second.  Two other tuples stand for a null date argument and
\* for an Invalid Date.
NullDate == <<>>
InvalidDate == <<NaN>>

\* Values a caller may pass as the callback argument.
Callbacks == {"undefined", "null", "string", "function"}

\* JavaScript typeof of a callback argument.
TypeOf(c) == IF c = "function" THEN "function"
             ELSE IF c = "null" THEN "object"
             ELSE c

\* Values a caller may pass as server and port; "undefined" and
\* UndefinedPort stand for an argument left undefined.
UndefinedPort == -1
Servers == {"undefined", "pool.ntp.org", "time.example.org", "192.0.2.1",
            "localhost", "::1", ""}
Ports == {UndefinedPort, 1, 123, 1123, 49152, 65535}

\* A parameter default (server = defaultNtpServer, port = defaultNtpPort)
\* replaces an undefined argument only.
ServerOrDefault(server) == IF server = "undefined" THEN defaultNtpServer ELSE server
PortOrDefault(port) == IF port = UndefinedPort THEN defaultNtpPort ELSE port

\* Errors the socket or the send callback may report.
Errors == {"ENOTFOUND", "ECONNREFUSED"}

\* ----------------------------------------------------------- the packets
\* The request buffer: byte 0 is 0x1B, bytes 1..47 are zero (1-based here).
ntpDataLoopFromZero == [i \in 1..PacketLen |-> 0]
ntpData == [i \in 1..PacketLen |-> IF i = 1 THEN 27 ELSE 0]

\* A reply with the given Transmit Timestamp bytes (offsets 40..47).
MkReply(ts) == [i \in 1..PacketLen |->
                  IF i > offsetTransmitTime THEN ts[i - offsetTransmitTime] ELSE 0]

Replies == { MkReply(<<0, 0, 0, 0, 0, 0, 0, 0>>),
             MkReply(<<0, 0, 1, 2, 64, 0, 0, 0>>) }

\* A datagram of len bytes: bytes 0..39 are fill, the rest is cut from ts.
MkDatagram(ts, fill, len) ==
    [i \in 1..len |-> IF i > offsetTransmitTime THEN ts[i - offsetTransmitTime] ELSE fill]

\* Seconds and fraction fields (4 bytes each, big-endian) of the decoder's
\* inputs: 0, small values, 2000-01-01, a 2026 date and the largest value;
\* fractions 0, 1/4, 1/2, just below 1 ms, and the largest.
SecondsFields == { <<0, 0, 0, 0>>, <<0, 0, 1, 2>>, <<0, 0, 65, 137>>, <<0, 1, 0, 0>>,
                   <<188, 23, 194, 0>>, <<236, 175, 10, 59>>, <<255, 255, 255, 255>> }
FractionFields == { <<0, 0, 0, 0>>, <<0, 0, 0, 1>>, <<64, 0, 0, 0>>, <<128, 0, 0, 0>>,
                    <<0, 65, 137, 55>>, <<127, 255, 255, 255>>, <<255, 255, 255, 255>> }
Fills == {0, 255}
ShortLens == {0, 39, 40, 41, 44, 47}

\* The datagrams the decoder is run on: full replies and truncated ones.
DecodeInputs ==
    { MkDatagram(sf \o ff, fill, PacketLen) :
        sf \in SecondsFields, ff \in FractionFields, fill \in Fills }
    \cup
    { MkDatagram(<<236, 175, 10, 59, 128, 0, 0, 0>>, fill, len) :
        fill \in Fills, len \in ShortLens }

\* msg[k] for a 0-based offset k; reading past the end yields undefined.
ByteAt(msg, k) == IF k + 1 <= Len(msg) THEN msg[k + 1] ELSE NaN

\* Numbers up to 2^32 are kept as <<high, low>> with value high * 65536 + low.
Zero32 == <<0, 0>>
NaN32 == <<NaN, NaN>>

\* The accumulation loop x = (256 * x) + msg[offsetTransmitTime + i] for
\* i = lo..hi, started from acc.  An undefined byte makes the sum NaN.
RECURSIVE Accumulate(_, _, _, _)
Accumulate(msg, lo, hi, acc) ==
    IF lo > hi THEN acc
    ELSE LET b == ByteAt(msg, offsetTransmitTime + lo)
         IN  IF b = NaN \/ acc = NaN32
             THEN Accumulate(msg, lo + 1, hi, NaN32)
             ELSE Accumulate(msg, lo + 1, hi,
                             <<acc[1] * 256 + (acc[2] \div 256),
                               (acc[2] % 256) * 256 + b>>)

\* The positions of msg the two loops index: offsetTransmitTime + i for
\* i = 0..7, whatever the length of msg.
ReadPositions(msg) == {offsetTransmitTime + i : i \in 0..7}

\* (fractpart * 1000) / 0x100000000, which is exact in double precision:
\* whole is its integer part and frac its fraction in units of 2^-29
\* (fractpart * 1000 / 2^32 = fractpart * 125 / 2^29).
FractMsHalfScale(f) ==
    LET p == f[2] * 125
        a == f[1] * 125 + (p \div 65536)
    IN  [whole |-> a \div 4096, frac |-> ((a % 4096) * 65536 + (p % 65536)) * 2]
FractMs(f) ==
    LET p == f[2] * 125
        a == f[1] * 125 + (p \div 65536)
    IN  [whole |-> a \div 8192, frac |-> (a % 8192) * 65536 + (p % 65536)]

\* The largest power of two that is at most n (n >= 1).
RECURSIVE Pow2Floor(_)
Pow2Floor(n) == IF n < 2 THEN 1 ELSE 2 * Pow2Floor(n \div 2)

\* The double-precision sum (intpart * 1000) + x, truncated to a whole
\* number of milliseconds as setUTCMilliseconds does.  The exact sum has 29
\* fraction bits; from 2^24 on it does not fit the 53-bit significand and is
\* rounded to nearest, which reaches the next whole millisecond when the
\* fraction is within half a unit in the last place of 1.  The result is
\* <<seconds (two halves), milliseconds within the second>>.
SumMsRounded(intpart, x) ==
    LET up == IF x.frac >= 268435456 THEN 1 ELSE 0
        ms == x.whole + up
    IN  IF ms < 1000 THEN <<intpart[1], intpart[2], ms>>
        ELSE IF intpart[2] = 65535 THEN <<intpart[1] + 1, 0, 0>>
        ELSE <<intpart[1], intpart[2] + 1, 0>>
SumMs(intpart, x) ==
    LET low  == intpart[2] * 1000 + x.whole
        mh   == intpart[1] * 1000 + (low \div 65536)   \* floor(sum) \div 65536
        half == IF mh < 256 THEN 0 ELSE Pow2Floor(mh) \div 256
        up   == IF x.frac > 0 /\ 536870912 - x.frac <= half THEN 1 ELSE 0
        ms   == x.whole + up
    IN  IF ms < 1000 THEN <<intpart[1], intpart[2], ms>>
        ELSE IF intpart[2] = 65535 THEN <<intpart[1] + 1, 0, 0>>
        ELSE <<intpart[1], intpart[2] + 1, 0>>

\* The date handed to the callback: new Date('Jan 01 1900 GMT') moved by
\* milliseconds = (intpart * 1000) + ((fractpart * 1000) / 0x100000000).
\* A NaN sum gives an Invalid Date.
Decode(msg) ==
    LET intpart   == Accumulate(msg, 0, 3, Zero32)
        fractpart == Accumulate(msg, 4, 7, Zero32)
    IN  IF intpart = NaN32 \/ fractpart = NaN32 THEN InvalidDate
        ELSE SumMs(intpart, FractMs(fractpart))

\* ------------------------------------------------------------- the state
VARIABLES
    nq,          \* number of queries the workload starts
    cb,          \* cb[q]: the callback argument of query q, "unset" before the call
    sockets,     \* sockets[q]: dgram.createSocket calls made by query q
    sent,        \* sent[q]: the datagrams handed to client.send
    timer,       \* timer[q]: "none", "armed", "fired", "cleared" or "dead"
    errorFired,  \* the errorFired flag, one slot per closure
    sendState,   \* sendState[q]: "none", "pending", "ok", "failed"
    listening,   \* listening[q]: the once('message') listener is registered
    closed,      \* closed[q]: the socket has been closed
    closeCalls,  \* closeCalls[q]: number of client.close() calls
    threw,       \* threw[q]: a handler ended with an uncaught exception
    calls,       \* calls[q]: the callback invocations, in order
    nErr,        \* socket 'error' events emitted so far
    nDgram,      \* datagrams arrived so far
    last         \* the last event: <<query, kind, argument>>

vars == <<nq, cb, sockets, sent, timer, errorFired, sendState, listening,
          closed, closeCalls, threw, calls, nErr, nDgram, last>>

\* The closure variable errorFired is declared inside getNetworkTime, so
\* every query has its own.
ErrorFiredSlot(q) == q

\* One callback invocation: who called, the arguments, and the timer and
\* socket state at the moment of the call.
CallDropsError(q, src, err, date) ==
    [src |-> src, err |-> Null, date |-> date,
     timerAt |-> timer[q], closedAt |-> closed[q]]
Call(q, src, err, date) ==
    [src |-> src, err |-> err, date |-> date,
     timerAt |-> timer[q], closedAt |-> closed[q]]

\* clearTimeout(timeout): disarms an armed timer, otherwise no effect.
ClearTimeout(t) == IF t = "armed" THEN "cleared" ELSE t

\* The process is running: no handler has ended with an uncaught exception.
Running == \A q \in Q : ~threw[q]

\* An uncaught exception (nothing in the module catches one) ends the
\* process: the armed timers of all queries die with it, given the timers t
\* at the throw, and the operating system closes every socket.
ExitTimers(t) == [q \in Q |-> IF t[q] = "armed" THEN "dead" ELSE t[q]]
ExitSockets == [q \in Q |-> closed[q] \/ sockets[q] > 0]

InitCommon ==
    /\ cb = [q \in Q |-> "unset"]
    /\ sockets = [q \in Q |-> 0]
    /\ sent = [q \in Q |-> <<>>]
    /\ timer = [q \in Q |-> "none"]
    /\ errorFired = [q \in Q |-> FALSE]
    /\ sendState = [q \in Q |-> "none"]
    /\ listening = [q \in Q |-> FALSE]
    /\ closed = [q \in Q |-> FALSE]
    /\ closeCalls = [q \in Q |-> 0]
    /\ threw = [q \in Q |-> FALSE]
    /\ calls = [q \in Q |-> <<>>]
    /\ nErr = 0
    /\ nDgram = 0
    /\ last = <<0, "init", Null>>

Init == nq = 1 /\ InitCommon

InitConcurrent == nq = NumQueries /\ InitCommon

\* --------------------------------------------------------- getNetworkTime
\* The arguments of client.send(ntpData, 0, ntpData.length, port, server, cb).
SendArgs(server, port) ==
    [data |-> ntpData, offset |-> 0, length |-> Len(ntpData),
     port |-> PortOrDefault(port), address |-> ServerOrDefault(server)]

GetNetworkTimeUnchecked(q, server, port, c) ==
    /\ Running
    /\ cb[q] = "unset"
    /\ q <= nq
    /\ cb' = [cb EXCEPT ![q] = c]
    /\ last' = <<q, "call", c>>
    /\ IF c = "null"
       THEN UNCHANGED <<sockets, sent, timer, errorFired, sendState>>
       ELSE /\ sockets' = [sockets EXCEPT ![q] = @ + 1]
            /\ timer' = [timer EXCEPT ![q] = "armed"]
            /\ errorFired' = [errorFired EXCEPT ![ErrorFiredSlot(q)] = FALSE]
            /\ sent' = [sent EXCEPT ![q] = Append(@, SendArgs(server, port))]
            /\ sendState' = [sendState EXCEPT ![q] = "pending"]
    /\ UNCHANGED <<nq, listening, closed, closeCalls, threw, calls, nErr, nDgram>>

GetNetworkTimeNoTimer(q, server, port, c) ==
    /\ Running
    /\ cb[q] = "unset"
    /\ q <= nq
    /\ cb' = [cb EXCEPT ![q] = c]
    /\ last' = <<q, "call", c>>
    /\ IF c = "null" \/ TypeOf(c) # "function"
       THEN UNCHANGED <<sockets, sent, timer, errorFired, sendState>>
       ELSE /\ sockets' = [sockets EXCEPT ![q] = @ + 1]
            /\ UNCHANGED timer
            /\ errorFired' = [errorFired EXCEPT ![ErrorFiredSlot(q)] = FALSE]
            /\ sent' = [sent EXCEPT ![q] = Append(@, SendArgs(server, port))]
            /\ sendState' = [sendState EXCEPT ![q] = "pending"]
    /\ UNCHANGED <<nq, listening, closed, closeCalls, threw, calls, nErr, nDgram>>

GetNetworkTimeListenEarly(q, server, port, c) ==
    /\ Running
    /\ cb[q] = "unset"
    /\ q <= nq
    /\ cb' = [cb EXCEPT ![q] = c]
    /\ last' = <<q, "call", c>>
    /\ IF c = "null" \/ TypeOf(c) # "function"
       THEN UNCHANGED <<sockets, sent, timer, errorFired, sendState, listening>>
       ELSE /\ sockets' = [sockets EXCEPT ![q] = @ + 1]
            /\ timer' = [timer EXCEPT ![q] = "armed"]
            /\ errorFired' = [errorFired EXCEPT ![ErrorFiredSlot(q)] = FALSE]
            /\ sent' = [sent EXCEPT ![q] = Append(@, SendArgs(server, port))]
            /\ sendState' = [sendState EXCEPT ![q] = "pending"]
            /\ listening' = [listening EXCEPT ![q] = TRUE]
    /\ UNCHANGED <<nq, closed, closeCalls, threw, calls, nErr, nDgram>>

\* getNetworkTime(server, port, callback): returns at once unless callback is
\* a function; otherwise creates the socket, builds the request, arms the
\* timer, clears errorFired, registers the 'error' listener and calls send.
GetNetworkTime(q, server, port, c) ==
    /\ Running
    /\ cb[q] = "unset"
    /\ q <= nq
    /\ cb' = [cb EXCEPT ![q] = c]
    /\ last' = <<q, "call", c>>
    /\ IF c = "null" \/ TypeOf(c) # "function"
       THEN UNCHANGED <<sockets, sent, timer, errorFired, sendState>>
       ELSE /\ sockets' = [sockets EXCEPT ![q] = @ + 1]
            /\ timer' = [timer EXCEPT ![q] = "armed"]
            /\ errorFired' = [errorFired EXCEPT ![ErrorFiredSlot(q)] = FALSE]
            /\ sent' = [sent EXCEPT ![q] = Append(@, SendArgs(server, port))]
            /\ sendState' = [sendState EXCEPT ![q] = "pending"]
    /\ UNCHANGED <<nq, listening, closed, closeCalls, threw, calls, nErr, nDgram>>

\* The query has created its socket and registered its handlers.
Started(q) == cb[q] = "function"

\* ------------------------------------------------------- the timer handler
TimerFiresNoClose(q) ==
    /\ Running
    /\ timer[q] = "armed"
    /\ timer' = [timer EXCEPT ![q] = "fired"]
    /\ last' = <<q, "timer", Null>>
    /\ calls' = [calls EXCEPT ![q] =
                   Append(@, [Call(q, "timer", TimeoutMsg, NullDate)
                                EXCEPT !.timerAt = "fired"])]
    /\ UNCHANGED <<closed, closeCalls, threw>>
    /\ UNCHANGED <<nq, cb, sockets, sent, errorFired, sendState, listening,
                   nErr, nDgram>>

TimerFiresRetransmit(q) ==
    /\ Running
    /\ timer[q] = "armed"
    /\ timer' = [timer EXCEPT ![q] = "fired"]
    /\ last' = <<q, "timer", Null>>
    /\ sent' = [sent EXCEPT ![q] = Append(@, @[1])]
    /\ UNCHANGED <<nq, cb, sockets, errorFired, sendState, listening, closed,
                   closeCalls, threw, calls, nErr, nDgram>>

\* setTimeout handler: client.close(), then callback(Timeout, null).
\* close() on a socket that is already closed throws, which ends the handler
\* and the process.
TimerFires(q) ==
    /\ Running
    /\ timer[q] = "armed"
    /\ last' = <<q, "timer", Null>>
    /\ closeCalls' = [closeCalls EXCEPT ![q] = @ + 1]
    /\ IF closed[q]
       THEN /\ threw' = [threw EXCEPT ![q] = TRUE]
            /\ timer' = ExitTimers([timer EXCEPT ![q] = "fired"])
            /\ closed' = ExitSockets
            /\ UNCHANGED calls
       ELSE /\ timer' = [timer EXCEPT ![q] = "fired"]
            /\ closed' = [closed EXCEPT ![q] = TRUE]
            /\ calls' = [calls EXCEPT ![q] =
                           Append(@, [Call(q, "timer", TimeoutMsg, NullDate)
                                        EXCEPT !.timerAt = "fired",
                                               !.closedAt = TRUE])]
            /\ UNCHANGED threw
    /\ UNCHANGED <<nq, cb, sockets, sent, errorFired, sendState, listening,
                   nErr, nDgram>>

\* ------------------------------------------------ the 'error' listener
SocketErrorNoFlag(q, e) ==
    /\ Running
    /\ Started(q)
    /\ nErr < MaxErrorEvents
    /\ nErr' = nErr + 1
    /\ last' = <<q, "error", e>>
    /\ IF errorFired[ErrorFiredSlot(q)]
       THEN UNCHANGED <<calls, timer>>
       ELSE /\ calls' = [calls EXCEPT ![q] = Append(@, Call(q, "error", e, NullDate))]
            /\ timer' = [timer EXCEPT ![q] = ClearTimeout(@)]
    /\ UNCHANGED <<nq, cb, sockets, sent, errorFired, sendState, listening, closed,
                   closeCalls, threw, nDgram>>

\* client.on('error', err => ...): returns if errorFired; otherwise
\* callback(err, null), errorFired = true, clearTimeout(timeout).
\* The socket is left as it is.
SocketError(q, e) ==
    /\ Running
    /\ Started(q)
    /\ nErr < MaxErrorEvents
    /\ nErr' = nErr + 1
    /\ last' = <<q, "error", e>>
    /\ IF errorFired[ErrorFiredSlot(q)]
       THEN UNCHANGED <<calls, errorFired, timer>>
       ELSE /\ calls' = [calls EXCEPT ![q] = Append(@, Call(q, "error", e, NullDate))]
            /\ errorFired' = [errorFired EXCEPT ![ErrorFiredSlot(q)] = TRUE]
            /\ timer' = [timer EXCEPT ![q] = ClearTimeout(@)]
    /\ UNCHANGED <<nq, cb, sockets, sent, sendState, listening, closed,
                   closeCalls, threw, nDgram>>

\* ---------------------------------------------------- the send callback
SendCallbackKeepTimer(q, e) ==
    /\ Running
    /\ sendState[q] = "pending"
    /\ last' = <<q, "send", e>>
    /\ IF e # Null
       THEN /\ sendState' = [sendState EXCEPT ![q] = "failed"]
            /\ UNCHANGED listening
            /\ IF errorFired[ErrorFiredSlot(q)]
               THEN UNCHANGED <<timer, calls, errorFired, closed, closeCalls, threw>>
               ELSE /\ calls' = [calls EXCEPT ![q] =
                                   Append(@, Call(q, "send", e, NullDate))]
                    /\ errorFired' = [errorFired EXCEPT ![ErrorFiredSlot(q)] = TRUE]
                    /\ closeCalls' = [closeCalls EXCEPT ![q] = @ + 1]
                    /\ IF closed[q]
                       THEN /\ threw' = [threw EXCEPT ![q] = TRUE]
                            /\ timer' = ExitTimers(timer)
                            /\ closed' = ExitSockets
                       ELSE /\ UNCHANGED <<timer, threw>>
                            /\ closed' = [closed EXCEPT ![q] = TRUE]
       ELSE /\ sendState' = [sendState EXCEPT ![q] = "ok"]
            /\ listening' = [listening EXCEPT ![q] = TRUE]
            /\ UNCHANGED <<timer, calls, errorFired, closed, closeCalls, threw>>
    /\ UNCHANGED <<nq, cb, sockets, sent, nErr, nDgram>>

\* The callback passed to client.send, invoked once with an error or null.
\* With an error: returns if errorFired; otherwise clearTimeout(timeout),
\* callback(err, null), errorFired = true, client.close(), which throws on
\* a socket that is already closed and so ends the process.
\* Without: registers the one-shot 'message' listener.
SendCallback(q, e) ==
    /\ Running
    /\ sendState[q] = "pending"
    /\ last' = <<q, "send", e>>
    /\ IF e # Null
       THEN /\ sendState' = [sendState EXCEPT ![q] = "failed"]
            /\ UNCHANGED listening
            /\ IF errorFired[ErrorFiredSlot(q)]
               THEN UNCHANGED <<timer, calls, errorFired, closed, closeCalls, threw>>
               ELSE /\ calls' = [calls EXCEPT ![q] =
                                   Append(@, [Call(q, "send", e, NullDate)
                                                EXCEPT !.timerAt = ClearTimeout(@)])]
                    /\ errorFired' = [errorFired EXCEPT ![ErrorFiredSlot(q)] = TRUE]
                    /\ closeCalls' = [closeCalls EXCEPT ![q] = @ + 1]
                    /\ IF closed[q]
                       THEN /\ threw' = [threw EXCEPT ![q] = TRUE]
                            /\ timer' = ExitTimers([timer EXCEPT ![q] = ClearTimeout(@)])
                            /\ closed' = ExitSockets
                       ELSE /\ timer' = [timer EXCEPT ![q] = ClearTimeout(@)]
                            /\ closed' = [closed EXCEPT ![q] = TRUE]
                            /\ UNCHANGED threw
       ELSE /\ sendState' = [sendState EXCEPT ![q] = "ok"]
            /\ listening' = [listening EXCEPT ![q] = TRUE]
            /\ UNCHANGED <<timer, calls, errorFired, closed, closeCalls, threw>>
    /\ UNCHANGED <<nq, cb, sockets, sent, nErr, nDgram>>

\* ------------------------------------------------ the 'message' listener
DatagramKeepTimer(q, msg) ==
    /\ Running
    /\ Started(q)
    /\ nDgram < MaxDatagrams
    /\ nDgram' = nDgram + 1
    /\ last' = <<q, "datagram", msg>>
    /\ IF closed[q] \/ ~listening[q]
       THEN UNCHANGED <<listening, timer, closed, closeCalls, calls>>
       ELSE /\ listening' = [listening EXCEPT ![q] = FALSE]
            /\ UNCHANGED timer
            /\ closeCalls' = [closeCalls EXCEPT ![q] = @ + 1]
            /\ closed' = [closed EXCEPT ![q] = TRUE]
            /\ calls' = [calls EXCEPT ![q] =
                           Append(@, [Call(q, "message", Null, Decode(msg))
                                        EXCEPT !.closedAt = TRUE])]
    /\ UNCHANGED <<nq, cb, sockets, sent, errorFired, sendState, threw, nErr>>

\* A datagram reaches the socket of query q.  A closed socket receives
\* nothing and a socket without a 'message' listener emits to nobody: the
\* datagram is dropped.  Otherwise the once('message') listener is removed
\* and runs: clearTimeout(timeout), client.close(), decode, callback(null, date).
Datagram(q, msg) ==
    /\ Running
    /\ Started(q)
    /\ nDgram < MaxDatagrams
    /\ nDgram' = nDgram + 1
    /\ last' = <<q, "datagram", msg>>
    /\ IF closed[q] \/ ~listening[q]
       THEN UNCHANGED <<listening, timer, closed, closeCalls, calls>>
       ELSE /\ listening' = [listening EXCEPT ![q] = FALSE]
            /\ timer' = [timer EXCEPT ![q] = ClearTimeout(@)]
            /\ closeCalls' = [closeCalls EXCEPT ![q] = @ + 1]
            /\ closed' = [closed EXCEPT ![q] = TRUE]
            /\ calls' = [calls EXCEPT ![q] =
                           Append(@, [Call(q, "message", Null, Decode(msg))
                                        EXCEPT !.timerAt = ClearTimeout(@),
                                               !.closedAt = TRUE])]
    /\ UNCHANGED <<nq, cb, sockets, sent, errorFired, sendState, threw, nErr>>

\* --------------------------------------------------- the specifications
Next ==
    \/ \E q \in Q, c \in Callbacks :
          GetNetworkTime(q, defaultNtpServer, defaultNtpPort, c)
    \/ \E q \in Q : TimerFires(q)
    \/ \E q \in Q, e \in Errors : SocketError(q, e)
    \/ \E q \in Q, e \in Errors \cup {Null} : SendCallback(q, e)
    \/ \E q \in Q, msg \in Replies : Datagram(q, msg)

\* One query.
Spec == Init /\ [][Next]_vars

\* One query; an armed timer that is not cleared eventually fires.
FairSpec == Spec /\ \A q \in Q : WF_vars(TimerFires(q))

\* NumQueries queries of one process running interleaved.
ConcurrentSpec == InitConcurrent /\ [][Next]_vars

\* The call on its own, with any server and port, followed by the send
\* callback.
RequestNext ==
    \/ \E server \in Servers, port \in Ports, c \in Callbacks :
          GetNetworkTime(1, server, port, c)
    \/ \E e \in Errors \cup {Null} : SendCallback(1, e)

RequestSpec == Init /\ [][RequestNext]_vars

\* The decoder run on its own: query 1 has been started and its send has
\* succeeded, and the first datagram is any of DecodeInputs.
InitDecode ==
    /\ nq = 1
    /\ cb = [q \in Q |-> IF q = 1 THEN "function" ELSE "unset"]
    /\ sockets = [q \in Q |-> IF q = 1 THEN 1 ELSE 0]
    /\ sent = [q \in Q |-> IF q = 1
                             THEN <<SendArgs(defaultNtpServer, defaultNtpPort)>>
                             ELSE <<>>]
    /\ timer = [q \in Q |-> IF q = 1 THEN "armed" ELSE "none"]
    /\ errorFired = [q \in Q |-> FALSE]
    /\ sendState = [q \in Q |-> IF q = 1 THEN "ok" ELSE "none"]
    /\ listening = [q \in Q |-> q = 1]
    /\ closed = [q \in Q |-> FALSE]
    /\ closeCalls = [q \in Q |-> 0]
    /\ threw = [q \in Q |-> FALSE]
    /\ calls = [q \in Q |-> <<>>]
    /\ nErr = 0
    /\ nDgram = 0
    /\ last = <<1, "send", Null>>

DecodeNext == \E msg \in DecodeInputs : calls[1] = <<>> /\ Datagram(1, msg)

DecodeSpec == InitDecode /\ [][DecodeNext]_vars

\* ------------------------------------------------------------ the claims
\* The query has not delivered any outcome yet.
Pending(q) == Started(q) /\ calls[q] = <<>>

\* The callback invocations of q that report the timeout / a success.
TimeoutCalls(q) == {i \in 1..Len(calls[q]) : calls[q][i].err = TimeoutMsg}
SuccessCalls(q) == {i \in 1..Len(calls[q]) : calls[q][i].err = Null}

\* C1: the callback of a query is invoked at most once, whatever events
\* occur and in whatever order.
C1_CallbackAtMostOnce == \A q \in Q : Len(calls[q]) <= 1

\* C2: every query started with a callable callback eventually invokes the
\* callback, provided an armed timer that is not cleared eventually fires.
C2_EventuallyCalledBack == \A q \in Q : Started(q) ~> (Len(calls[q]) >= 1)

\* The timer alone completed the query: no send callback, no socket error
\* and no datagram ever happened.
C2_Witness ==
    /\ Len(calls[1]) = 1 /\ calls[1][1].src = "timer"
    /\ sendState[1] = "pending" /\ nErr = 0 /\ nDgram = 0

\* C3: once the callback has been invoked and its handler has finished, the
\* socket of the query is closed.
C3_ClosedOnEveryExit == \A q \in Q : Len(calls[q]) >= 1 => closed[q]

\* C4: client.close() is called at most once per query.
C4_CloseAtMostOnce == \A q \in Q : closeCalls[q] <= 1

\* C5: when the timer fires on a pending query the callback gets the Timeout
\* error with a null date after the socket was closed; from then on no
\* success is ever delivered and an arriving datagram invokes no callback.
C5_TimeoutWins ==
    [][\A q \in Q :
         /\ (Pending(q) /\ last' = <<q, "timer", Null>>) =>
               /\ calls'[q] = <<[src |-> "timer", err |-> TimeoutMsg,
                                 date |-> NullDate, timerAt |-> "fired",
                                 closedAt |-> TRUE]>>
               /\ closed'[q]
         /\ (calls[q] # <<>> /\ calls[q][1].src = "timer") =>
               /\ SuccessCalls(q)' = {}
               /\ (last'[1] = q /\ last'[2] = "datagram") => calls'[q] = calls[q]
      ]_vars

\* The send succeeded, the timer fired and then a datagram arrived: the
\* Timeout is the only outcome delivered.
C5_Witness ==
    /\ last[1] = 1 /\ last[2] = "datagram"
    /\ sendState[1] = "ok"
    /\ Len(calls[1]) = 1 /\ calls[1][1].err = TimeoutMsg /\ closed[1]

\* C6: a send callback error on a pending query delivers that error with a
\* null date, with the timer already disarmed, and closes the socket; the
\* Timeout is never delivered afterwards.
C6_SendErrorFails ==
    [][\A q \in Q :
         /\ \A e \in Errors :
              (Pending(q) /\ last' = <<q, "send", e>>) =>
                 /\ calls'[q] = <<[src |-> "send", err |-> e, date |-> NullDate,
                                   timerAt |-> "cleared", closedAt |-> FALSE]>>
                 /\ timer'[q] = "cleared"
                 /\ closed'[q] /\ closeCalls'[q] = 1 /\ ~threw'[q]
         /\ (calls[q] # <<>> /\ calls[q][1].src = "send") =>
               /\ timer'[q] = "cleared"
               /\ TimeoutCalls(q)' = {}
      ]_vars

\* A pending query has just been failed by its send callback.
C6_Witness ==
    /\ last[1] = 1 /\ last[2] = "send" /\ last[3] \in Errors
    /\ Len(calls[1]) = 1 /\ calls[1][1].src = "send"
    /\ timer[1] = "cleared" /\ closed[1]

\* C7: the first datagram on a pending query whose send succeeded delivers
\* (null, decoded date) after the timer was disarmed and the socket closed;
\* afterwards the timer never fires and no datagram invokes the callback.
C7_ReplySucceeds ==
    [][\A q \in Q :
         /\ \A msg \in Replies :
              (Pending(q) /\ sendState[q] = "ok" /\ last' = <<q, "datagram", msg>>) =>
                 /\ calls'[q] = <<[src |-> "message", err |-> Null,
                                   date |-> Decode(msg), timerAt |-> "cleared",
                                   closedAt |-> TRUE]>>
                 /\ closed'[q] /\ closeCalls'[q] = 1
         /\ (calls[q] # <<>> /\ calls[q][1].src = "message") =>
               /\ timer'[q] = "cleared"
               /\ TimeoutCalls(q)' = {}
               /\ (last'[1] = q /\ last'[2] = "datagram") => calls'[q] = calls[q]
      ]_vars

\* A reply completed the query and a second datagram arrived afterwards.
C7_Witness ==
    /\ last[1] = 1 /\ last[2] = "datagram" /\ nDgram = 2
    /\ Len(calls[1]) = 1 /\ calls[1][1].src = "message"
    /\ Len(calls[1][1].date) = 3 /\ timer[1] = "cleared"

\* C8: a socket 'error' event on a pending query delivers that error with a
\* null date and disarms the timer; one that occurs after the query was
\* completed by the timeout or by a send error invokes no callback.
C8_SocketError ==
    [][\A q \in Q : \A e \in Errors :
         (last' = <<q, "error", e>>) =>
            /\ Pending(q) =>
                 /\ calls'[q] = <<[src |-> "error", err |-> e, date |-> NullDate,
                                   timerAt |-> "armed", closedAt |-> FALSE]>>
                 /\ timer'[q] = "cleared"
            /\ (calls[q] # <<>> /\ calls[q][1].src \in {"timer", "send"}) =>
                 calls'[q] = calls[q]
      ]_vars

\* What query q can observe of the program state.
View(q) ==
    <<cb[q], sockets[q], sent[q], timer[q], errorFired[ErrorFiredSlot(q)],
      sendState[q], listening[q], closed[q], closeCalls[q], threw[q], calls[q]>>

\* C9: an event of one query leaves the socket, timer, flag, and outcome of
\* every other query unchanged.
C9_Independent ==
    [][\A q \in Q : last'[1] # q => View(q)' = View(q)]_vars

\* C10: a call whose callback is missing, null or not a function creates no
\* socket, arms no timer and sends nothing.
C10_NoCallbackNoOp ==
    \A q \in Q :
        cb[q] \in {"undefined", "null", "string"} =>
            /\ sockets[q] = 0 /\ timer[q] = "none"
            /\ sent[q] = <<>> /\ sendState[q] = "none"
            /\ calls[q] = <<>> /\ ~closed[q]

\* getNetworkTime was called with a callback that is not a function.
C10_Witness == cb[1] = "string" /\ last = <<1, "call", "string">>

\* ------------------------------------------------- claims on the decoder
\* The datagram of the last event and the date its handler delivered.
LastMsg == last[3]
Decoded(q) == last[1] = q /\ last[2] = "datagram" /\ Len(calls[q]) = 1
              /\ calls[q][1].src = "message"

\* The Transmit Timestamp bytes of a 48-byte reply.
TsBytes(msg) == [i \in 1..8 |-> msg[offsetTransmitTime + i]]

\* S * 1000 + floor(F * 1000 / 2^32) as <<S high half, S low half, ms>>,
\* S and F being the big-endian values of bytes 40..43 and 44..47.
FloorMs(msg) ==
    LET t  == TsBytes(msg)
        fh == t[5] * 256 + t[6]
        fl == t[7] * 256 + t[8]
    IN  <<t[1] * 256 + t[2], t[3] * 256 + t[4],
          ((fh * 1000) + ((fl * 1000) \div 65536)) \div 65536>>

\* One millisecond after d.
PlusOneMs(d) ==
    IF d[3] < 999 THEN <<d[1], d[2], d[3] + 1>>
    ELSE IF d[2] = 65535 THEN <<d[1] + 1, 0, 0>>
    ELSE <<d[1], d[2] + 1, 0>>

\* S * 1000 + floor(F * 1000 / 2^32) is below 2^24.
Below2p24(msg) ==
    LET d == FloorMs(msg)
    IN  d[1] * 1000 + ((d[2] * 1000 + d[3]) \div 65536) < 256

\* C12 (as claimed): every 48-byte reply decodes to exactly
\* S * 1000 + floor(F * 1000 / 2^32) ms after 1900-01-01 UTC, whatever
\* bytes 0..39 hold.
C12_DecodeIsFloor ==
    \A q \in Q :
        (Decoded(q) /\ Len(LastMsg) = PacketLen) =>
            calls[q][1].date = FloorMs(LastMsg)

\* C12 (amended): every 48-byte reply decodes to S * 1000 +
\* floor(F * 1000 / 2^32) ms or to one millisecond more, and to exactly
\* that value when it is below 2^24; bytes 0..39 have no influence.
C12_DecodeWithinOneMs ==
    \A q \in Q :
        (Decoded(q) /\ Len(LastMsg) = PacketLen) =>
            /\ calls[q][1].date \in {FloorMs(LastMsg), PlusOneMs(FloorMs(LastMsg))}
            /\ Below2p24(LastMsg) => calls[q][1].date = FloorMs(LastMsg)
            /\ calls[q][1].date = Decode(MkReply(TsBytes(LastMsg)))

\* A reply with non-zero bytes 0..39 whose sum was rounded up to the next
\* millisecond.
C12_Witness ==
    /\ Decoded(1) /\ Len(LastMsg) = PacketLen /\ LastMsg[1] = 255
    /\ calls[1][1].date = PlusOneMs(FloorMs(LastMsg))

\* C13: integer part 0 with fraction 0x80000000 decodes to exactly 500 ms
\* after the NTP epoch, and integer part 0 with fraction 0 to the epoch.
C13_HalfSecond ==
    \A q \in Q :
        (Decoded(q) /\ Len(LastMsg) = PacketLen) =>
            /\ TsBytes(LastMsg) = <<0, 0, 0, 0, 128, 0, 0, 0>> =>
                   calls[q][1].date = <<0, 0, 500>>
            /\ TsBytes(LastMsg) = <<0, 0, 0, 0, 0, 0, 0, 0>> =>
                   calls[q][1].date = <<0, 0, 0>>

\* The reply with fraction 0x80000000 has been decoded.
C13_Witness ==
    /\ Decoded(1) /\ Len(LastMsg) = PacketLen
    /\ TsBytes(LastMsg) = <<0, 0, 0, 0, 128, 0, 0, 0>>
    /\ calls[1][1].date = <<0, 0, 500>>

\* C18: decoding a reply of fewer than 48 bytes reads no position at or
\* beyond the received length.
C18_NoReadPastEnd ==
    \A q \in Q :
        (Decoded(q) /\ Len(LastMsg) < PacketLen) =>
            \A p \in ReadPositions(LastMsg) : p < Len(LastMsg)

\* ------------------------------------------------ claims on the request
\* C11: every datagram handed to send is 48 bytes long, starts with 0x1B
\* and is zero in bytes 1..47, whatever server and port were passed.
C11_PacketShape ==
    \A q \in Q : \A i \in 1..Len(sent[q]) :
        LET d == sent[q][i]
        IN  /\ Len(d.data) = 48 /\ d.offset = 0 /\ d.length = 48
            /\ d.data[1] = 27
            /\ \A j \in 2..48 : d.data[j] = 0

\* A request has been sent to a server and port other than the defaults.
C11_Witness ==
    /\ Len(sent[1]) = 1
    /\ sent[1][1].address = "192.0.2.1" /\ sent[1][1].port = 65535

\* ------------------------------------------- further claims on the query
\* C14: a query opens exactly one socket and sends exactly once; no outcome
\* makes it send again or open another socket.
C14_OneSocketOneSend ==
    \A q \in Q :
        /\ Started(q) => sockets[q] = 1 /\ Len(sent[q]) = 1
        /\ ~Started(q) => sockets[q] = 0 /\ sent[q] = <<>>

\* The query timed out and its send failed as well: still one socket and
\* one send.
C14_Witness ==
    /\ calls[1] # <<>> /\ calls[1][1].src = "timer" /\ sendState[1] = "failed"
    /\ nErr >= 1 /\ sockets[1] = 1 /\ Len(sent[1]) = 1

\* C15: once a socket 'error' event has delivered its error on a query
\* whose send succeeded, no later datagram makes the callback report a
\* success.
C15_ErrorSuppressesReply ==
    \A q \in Q :
        (calls[q] # <<>> /\ calls[q][1].src = "error" /\ sendState[q] = "ok")
            => SuccessCalls(q) = {}

\* The callback invocations of q made by the two error reports.
ErrorReportCalls(q) ==
    {i \in 1..Len(calls[q]) : calls[q][i].src \in {"error", "send"}}

\* C16: of a socket 'error' event and a send callback error, in either
\* order, only the first invokes the callback: a report that finds
\* errorFired set returns without a call, one that finds it clear makes one
\* call and sets it.
C16_FirstReportOnly ==
    [][\A q \in Q : \A e \in Errors :
         (last' = <<q, "error", e>> \/ last' = <<q, "send", e>>) =>
            /\ IF errorFired[ErrorFiredSlot(q)]
               THEN calls'[q] = calls[q]
               ELSE /\ Len(calls'[q]) = Len(calls[q]) + 1
                    /\ calls'[q][Len(calls'[q])].err = e
            /\ errorFired'[ErrorFiredSlot(q)]
            /\ Cardinality(ErrorReportCalls(q)') = 1
      ]_vars

\* The socket reported the failure first and the send callback reported it
\* afterwards, with no timer expiry: one callback invocation.
C16_Witness ==
    /\ last[1] = 1 /\ last[2] = "send" /\ last[3] \in Errors
    /\ nErr >= 1 /\ timer[1] = "cleared"
    /\ Len(calls[1]) = 1 /\ calls[1][1].src = "error"

\* C17: every callback invocation passes either a non-null error with a
\* null date (timeout, send error, socket error) or a null error with a
\* date (success).
C17_ErrorXorDate ==
    \A q \in Q : \A i \in 1..Len(calls[q]) :
        LET c == calls[q][i]
        IN  IF c.src = "message"
            THEN c.err = Null /\ c.date # NullDate
            ELSE c.err # Null /\ c.date = NullDate

\* The callback has been invoked with an error and with a success.
C17_Witness ==
    /\ Len(calls[1]) = 2
    /\ calls[1][1].err \in Errors /\ calls[1][1].date = NullDate
    /\ calls[1][2].err = Null /\ Len(calls[1][2].date) = 3

\* C19: a success is delivered only after the send callback has run without
\* error; a datagram that arrives before the send callback has run, or
\* after it reported an error, invokes no callback.
C19_SuccessNeedsSendOk ==
    [][\A q \in Q :
         /\ SuccessCalls(q)' # {} => sendState'[q] = "ok"
         /\ (last'[1] = q /\ last'[2] = "datagram" /\ sendState[q] \in {"pending", "failed"})
               => calls'[q] = calls[q]
      ]_vars

\* A datagram arrived while the send callback had not run yet, and was
\* dropped.
C19_Witness ==
    /\ last[1] = 1 /\ last[2] = "datagram"
    /\ sendState[1] = "pending" /\ calls[1] = <<>> /\ ~closed[1]
====
